---- MODULE Spec2Model ----
(***************************************************************************)
(* Model of the blockchain-secure-logging off-chain pipeline:              *)
(*   offchain/merkle.py   canonical leaf encoding, Merkle root/proof/verify *)
(*   offchain/schemas.py  LogEntry, BatchMeta, hex validation               *)
(*   offchain/batcher.py  gather_entries, build_manifest, persist_manifest  *)
(*   offchain/storage/local_store.py  AppendOnlyStore.append_json           *)
(*   offchain/api.py      anchor_batch and verify handlers                  *)
(*                                                                         *)
(* SHA-256 is modelled as a free (collision-free) constructor: a digest is *)
(* the record [sha |-> preimage].  A preimage is either the canonical JSON *)
(* bytes of an entry, [json |-> ...], or the 64-byte concatenation of two  *)
(* digests, [left |-> l, right |-> r].  Arbitrary 32-byte values that are  *)
(* not known digests are [raw |-> i].                                      *)
(***************************************************************************)
EXTENDS Integers, Sequences, FiniteSets, TLC

VARIABLES
    inp,        \* harness: arguments of the pure call under examination
    out,        \* harness: what the call returned
    pc,         \* harness: "ready" before the call, "done" after it
    manifests,  \* service: manifest directory, batch id -> persisted manifest
    latestRoot, \* ledger: LogAnchor.latestRoot (bytes32)
    seenBatches,\* ledger: LogAnchor.seenBatches, the batch ids anchored on chain
    pending,    \* ledger: anchor transactions submitted and not yet mined
    resp,       \* service: the last response an endpoint produced
    files,      \* store: path -> content of the file at that path
    mode,       \* store: path -> permission bits of the file at that path
    clock,      \* store: wall clock, in whole seconds
    writer      \* store: per-writer position inside its write call

harnessVars == <<inp, out, pc>>
serviceVars == <<manifests, latestRoot, seenBatches, pending, resp>>
storeVars == <<files, mode, clock, writer>>
vars == <<inp, out, pc, manifests, latestRoot, seenBatches, pending, resp,
          files, mode, clock, writer>>

(***************************************************************************)
(* Bounds of the model.                                                    *)
(***************************************************************************)
MaxLeaves == 5
MaxBatch == 2
MaxClock == 1
MaxPending == 1

(***************************************************************************)
(* Python values.                                                          *)
(***************************************************************************)
None == [none |-> TRUE]
Ret(v) == [value |-> v]
Raise(e) == [error |-> e]
IsRaise(r) == DOMAIN r = {"error"}

(***************************************************************************)
(* hashlib.sha256(...).digest() and bytes concatenation.                   *)
(***************************************************************************)
Raw(i) == [raw |-> i]
Sha256(bytes) == [sha |-> bytes]
Concat(l, r) == [left |-> l, right |-> r]
ZeroHash == Raw(0)

(***************************************************************************)
(* merkle.py: _pairwise, merkle_root, merkle_proof, verify_proof.          *)
(* Python indices are 0-based; sequences here are 1-based.                 *)
(***************************************************************************)
At(seq, i) == seq[i + 1]

\* A pairing that fills an odd level with the zero hash.
PairwisePadZero(iterable) ==
    [k \in 1..((Len(iterable) + 1) \div 2) |->
        LET i == 2 * (k - 1)
        IN  <<At(iterable, i),
              IF i + 1 < Len(iterable) THEN At(iterable, i + 1) ELSE ZeroHash>>]

PairwiseDropLast(iterable) ==
    [k \in 1..(Len(iterable) \div 2) |->
        <<At(iterable, 2 * (k - 1)), At(iterable, 2 * (k - 1) + 1)>>]

_pairwise(iterable) ==
    [k \in 1..((Len(iterable) + 1) \div 2) |->
        LET i == 2 * (k - 1)
            left == At(iterable, i)
            right == IF i + 1 < Len(iterable) THEN At(iterable, i + 1) ELSE At(iterable, i)
        IN  <<left, right>>]

next_level(level) ==
    LET pairs == _pairwise(level)
    IN  [k \in 1..Len(pairs) |-> Sha256(Concat(pairs[k][1], pairs[k][2]))]

RECURSIVE MerkleRootLoop(_)
MerkleRootLoop(level) ==
    IF Len(level) > 1 THEN MerkleRootLoop(next_level(level)) ELSE At(level, 0)

\* A construction with domain separation: leaves hashed under a leaf tag.
MerkleRootLeafTagged(leaves) ==
    IF leaves = <<>>
    THEN Raise("ValueError")
    ELSE Ret(MerkleRootLoop([i \in 1..Len(leaves) |-> Sha256([leaf |-> leaves[i]])]))

MerkleRootOfNothing(leaves) ==
    IF leaves = <<>> THEN Ret(ZeroHash) ELSE Ret(MerkleRootLoop(leaves))

merkle_root(leaves) ==
    IF leaves = <<>>
    THEN Raise("ValueError")
    ELSE Ret(MerkleRootLoop(leaves))

\* A proof that pairs every node with itself.
SiblingIsSelf(idx) == idx

\* idx ^ 1
Xor1(idx) == IF idx % 2 = 0 THEN idx + 1 ELSE idx - 1

DirectionSwapped(sibling_idx, idx) == IF sibling_idx < idx THEN "right" ELSE "left"

Direction(sibling_idx, idx) == IF sibling_idx < idx THEN "left" ELSE "right"

RECURSIVE MerkleProofLoop(_, _, _)
MerkleProofLoop(idx, level, proof) ==
    IF Len(level) > 1
    THEN LET padded == IF Len(level) % 2 = 1
                       THEN Append(level, At(level, Len(level) - 1))
                       ELSE level
             sibling_idx == Xor1(idx)
             direction == Direction(sibling_idx, idx)
         IN  MerkleProofLoop(idx \div 2, next_level(padded),
                             Append(proof, <<direction, At(padded, sibling_idx)>>))
    ELSE proof

MerkleProofUnchecked(target_index, leaves) ==
    IF ~(0 <= target_index /\ target_index < Len(leaves))
    THEN Ret(<<>>)
    ELSE Ret(MerkleProofLoop(target_index, leaves, <<>>))

merkle_proof(target_index, leaves) ==
    IF ~(0 <= target_index /\ target_index < Len(leaves))
    THEN Raise("IndexError")
    ELSE Ret(MerkleProofLoop(target_index, leaves, <<>>))

RECURSIVE VerifyLoop(_, _, _)
VerifyLoop(computed, proof, k) ==
    IF k > Len(proof)
    THEN Ret(computed)
    ELSE LET direction == proof[k][1]
             sibling == proof[k][2]
         IN  IF direction = "right"
             THEN VerifyLoop(Sha256(Concat(computed, sibling)), proof, k + 1)
             ELSE IF direction = "left"
             THEN VerifyLoop(Sha256(Concat(sibling, computed)), proof, k + 1)
             ELSE Raise("ValueError")

VerifyProofNeverRaises(leaf, proof, expected_root) ==
    LET folded == VerifyLoop(leaf, proof, 1)
    IN  IF IsRaise(folded) THEN Ret(FALSE) ELSE Ret(folded.value = expected_root)

verify_proof(leaf, proof, expected_root) ==
    LET folded == VerifyLoop(leaf, proof, 1)
    IN  IF IsRaise(folded) THEN folded ELSE Ret(folded.value = expected_root)

(***************************************************************************)
(* JSON values and Python dicts.  A dict is a function from its keys; a    *)
(* JSON value is a string [str |-> s], a number [num |-> n], an object     *)
(* [obj |-> dict] or None.                                                 *)
(***************************************************************************)
JStr(s) == [str |-> s]
JNum(n) == [num |-> n]
JObj(d) == [obj |-> d]
IsJStr(v) == DOMAIN v = {"str"}
IsJNum(v) == DOMAIN v = {"num"}
IsJObj(v) == DOMAIN v = {"obj"}
EmptyDict == [k \in {} |-> None]

\* dict.update: the keys of other win.
DictUpdate(d, other) ==
    [k \in DOMAIN d \cup DOMAIN other |-> IF k \in DOMAIN other THEN other[k] ELSE d[k]]

\* The keys that occur in the model, in the order json.dumps(sort_keys=True)
\* writes them (lexicographic).
SortedKeys == <<"details", "fields", "level", "msg", "source_id", "ts", "user">>

\* json.dumps(payload, sort_keys=True, separators=(",", ":")): one
\* key/value pair per key of the dict, in sorted key order.
JsonDumpsSorted(payload) ==
    LET present == SelectSeq(SortedKeys, LAMBDA k : k \in DOMAIN payload)
    IN  [json |-> [i \in 1..Len(present) |-> <<present[i], payload[present[i]]>>]]

(***************************************************************************)
(* schemas.py: datetimes, ISOFORMAT, _ensure_datetime, _validate_hex32.    *)
(* A datetime is [sec, micro] (UTC); ISOFORMAT has second resolution, so   *)
(* strftime writes the seconds only.  An instant before the year 1000 has  *)
(* a negative sec: strftime's %Y writes its year without leading zeros,    *)
(* strptime's %Y reads four digits.                                        *)
(***************************************************************************)
DateTime(s, m) == [sec |-> s, micro |-> m]
IsDateTime(v) == DOMAIN v = {"sec", "micro"}
ParseHorizon == (-1)..9

strftime(ts) ==
    IF ts.sec < 0
    THEN "999-" \o ToString(-ts.sec) \o "Z"
    ELSE ToString(ts.sec) \o "Z"

\* The text strptime(text, ISOFORMAT) reads as second s.
FourDigitYearText(s) ==
    IF s < 0
    THEN "0999-" \o ToString(-s) \o "Z"
    ELSE ToString(s) \o "Z"

strptime(text) ==
    IF \E s \in ParseHorizon : FourDigitYearText(s) = text
    THEN Ret(DateTime(CHOOSE s \in ParseHorizon : FourDigitYearText(s) = text, 0))
    ELSE Raise("ValueError")

_ensure_datetime(value) ==
    IF IsDateTime(value) THEN Ret(value)
    ELSE IF IsJNum(value) THEN Ret(DateTime(value.num, 0))
    ELSE IF IsJStr(value) THEN strptime(value.str)
    ELSE Raise("TypeError")

\* Lexicographic order of datetimes.
TsLess(a, b) == a.sec < b.sec \/ (a.sec = b.sec /\ a.micro < b.micro)

(***************************************************************************)
(* Hex text.  The text of a 32-byte value is [pfx, upper, val]: whether it *)
(* starts with "0x", whether its hex digits are upper case, and the bytes  *)
(* it denotes.  A text that is not 64 hex digits has val = [bad |-> ...].  *)
(* The all-zero value has no letters, so it has one case only.             *)
(***************************************************************************)
HasLetters(val) == val # ZeroHash
HexText(pfx, upper, val) == [pfx |-> pfx, upper |-> upper /\ HasLetters(val), val |-> val]
BadHexText == [pfx |-> TRUE, upper |-> FALSE, val |-> [bad |-> "length"]]
IsHex64(text) == DOMAIN text.val # {"bad"}
hex(val) == HexText(FALSE, FALSE, val)
Prefix0x(text) == [text EXCEPT !.pfx = TRUE]
lower(text) == [text EXCEPT !.upper = FALSE]

_validate_hex32(value) ==
    IF value = None THEN Ret(None)
    ELSE LET lowered == lower(value)
             normalized == IF ~lowered.pfx THEN Prefix0x(lowered) ELSE lowered
         IN  IF ~IsHex64(normalized) THEN Raise("ValueError") ELSE Ret(normalized)

(***************************************************************************)
(* schemas.py: LogEntry.  An entry is [ts, source_id, level, msg, fields]. *)
(***************************************************************************)
LogEntry(ts, source_id, level, msg, fields) ==
    [ts |-> ts, source_id |-> source_id, level |-> level, msg |-> msg, fields |-> fields]

BaseKeys == {"ts", "source_id", "level", "msg", "fields"}

\* Python truth value of a JSON value.
Falsy(v) == v \in {None, JNum(0), JStr(""), JObj(EmptyDict)}

\* dict(payload.get("fields") or {}): dict() of a text raises ValueError,
\* of a number TypeError.
FieldsPayload(payload) ==
    IF "fields" \notin DOMAIN payload \/ Falsy(payload["fields"])
    THEN Ret(EmptyDict)
    ELSE IF IsJObj(payload["fields"])
    THEN Ret(payload["fields"].obj)
    ELSE IF IsJStr(payload["fields"])
    THEN Raise("ValueError")
    ELSE Raise("TypeError")

\* A merge in which the payload's own fields object wins.
CanonicalFieldsObjectWins(payload) ==
    LET dynamic == [k \in DOMAIN payload \ BaseKeys |-> payload[k]]
        fields_payload == FieldsPayload(payload)
    IN  IF IsRaise(fields_payload) THEN fields_payload
        ELSE Ret(DictUpdate(dynamic, fields_payload.value))

_canonical_fields(payload) ==
    LET dynamic == [k \in DOMAIN payload \ BaseKeys |-> payload[k]]
        fields_payload == FieldsPayload(payload)
    IN  IF IsRaise(fields_payload) THEN fields_payload
        ELSE Ret(DictUpdate(fields_payload.value, dynamic))

\* str(value) of a JSON value.
PyStr(v) ==
    IF IsJStr(v) THEN v.str
    ELSE IF IsJNum(v) THEN ToString(v.num)
    ELSE IF IsJObj(v) THEN "{...}"
    ELSE "None"

parse_obj(payload) ==
    IF ~({"ts", "source_id", "level", "msg"} \subseteq DOMAIN payload)
    THEN Raise("ValueError")
    ELSE LET ts == _ensure_datetime(payload["ts"])
             fields == _canonical_fields(payload)
         IN  IF IsRaise(ts)
             THEN ts
             ELSE IF IsRaise(fields)
             THEN fields
             ELSE Ret(LogEntry(ts.value, PyStr(payload["source_id"]), PyStr(payload["level"]),
                               PyStr(payload["msg"]), fields.value))

\* LogEntry.dict(), which json() dumps and json.loads reads back.
EntryDict(entry) ==
    [k \in {"ts", "source_id", "level", "msg", "fields"} |->
        CASE k = "ts" -> JStr(strftime(entry.ts))
          [] k = "source_id" -> JStr(entry.source_id)
          [] k = "level" -> JStr(entry.level)
          [] k = "msg" -> JStr(entry.msg)
          [] k = "fields" -> JObj(entry.fields)]

(***************************************************************************)
(* merkle.py: canonical_leaf, leaf_hash.                                   *)
(***************************************************************************)
canonical_leaf(entry) ==
    LET payload == [k \in {"ts", "source_id", "level", "msg"} |->
                       CASE k = "ts" -> JStr(strftime(entry.ts))
                         [] k = "source_id" -> JStr(entry.source_id)
                         [] k = "level" -> JStr(entry.level)
                         [] k = "msg" -> JStr(entry.msg)]
        updated == IF entry.fields # EmptyDict THEN DictUpdate(payload, entry.fields) ELSE payload
    IN  JsonDumpsSorted(updated)

leaf_hash(entry) == Sha256(canonical_leaf(entry))

(***************************************************************************)
(* The same encoder on dicts that keep their insertion order: a dict is    *)
(* the sequence of its <<key, value>> items in insertion order.            *)
(***************************************************************************)
ItemKeys(items) == {items[i][1] : i \in 1..Len(items)}
ItemValue(items, k) == items[CHOOSE i \in 1..Len(items) : items[i][1] = k][2]
DictOfItems(items) == [k \in ItemKeys(items) |-> ItemValue(items, k)]

\* dict.update: a key already present keeps its place and takes the new
\* value; a new key goes to the end.
RECURSIVE ItemsUpdate(_, _)
ItemsUpdate(d, other) ==
    IF other = <<>>
    THEN d
    ELSE LET kv == Head(other)
             set == IF kv[1] \in ItemKeys(d)
                    THEN [i \in 1..Len(d) |-> IF d[i][1] = kv[1] THEN kv ELSE d[i]]
                    ELSE Append(d, kv)
         IN  ItemsUpdate(set, Tail(other))

JsonDumpsInsertionOrder(items) == [json |-> items]

\* json.dumps(payload, sort_keys=True, separators=(",", ":")) on the items.
JsonDumpsItems(items) ==
    LET present == SelectSeq(SortedKeys, LAMBDA k : k \in ItemKeys(items))
    IN  [json |-> [i \in 1..Len(present) |-> <<present[i], ItemValue(items, present[i])>>]]

\* canonical_leaf of the entry whose fields dict holds the given items.
CanonicalLeafOfItems(entry, fields) ==
    LET payload == << <<"ts", JStr(strftime(entry.ts))>>,
                      <<"source_id", JStr(entry.source_id)>>,
                      <<"level", JStr(entry.level)>>,
                      <<"msg", JStr(entry.msg)>> >>
        updated == IF fields # <<>> THEN ItemsUpdate(payload, fields) ELSE payload
    IN  JsonDumpsItems(updated)

(***************************************************************************)
(* batcher.py: gather_entries, build_manifest.                             *)
(***************************************************************************)
\* list.sort(key=lambda e: e.ts): a stable sort, here by insertion.
RECURSIVE InsertByTs(_, _)
InsertByTs(sorted, e) ==
    IF sorted = <<>> THEN <<e>>
    ELSE IF TsLess(e.ts, sorted[Len(sorted)].ts)
    THEN Append(InsertByTs(SubSeq(sorted, 1, Len(sorted) - 1), e), sorted[Len(sorted)])
    ELSE Append(sorted, e)

RECURSIVE SortByTs(_)
SortByTs(entries) ==
    IF entries = <<>> THEN <<>>
    ELSE InsertByTs(SortByTs(SubSeq(entries, 1, Len(entries) - 1)), entries[Len(entries)])

\* config: [sources |-> the parsed lines of each source file, in order,
\*          state_prev |-> config["state"]["prev_merkle_root"] or None]
RECURSIVE Flatten(_)
Flatten(sources) ==
    IF sources = <<>> THEN <<>> ELSE Head(sources) \o Flatten(Tail(sources))

gather_entries(config) ==
    [entries |-> SortByTs(Flatten(config.sources)), prev_root |-> config.state_prev]

\* datetime.now(timezone.utc), the window of a batch without entries; the
\* branch is taken only after merkle_root has accepted an empty batch.
UtcNow == DateTime(9, 0)

LeafHashes(entries) == [i \in 1..Len(entries) |-> leaf_hash(entries[i])]

PrevRootDropped(prev_root) == Ret(None)

\* BatchMeta.__post_init__ on prev_merkle_root.
PrevRootField(prev_root) == _validate_hex32(prev_root)

build_manifest(batch_id, entries, prev_root) ==
    LET leaves == LeafHashes(entries)
        root == merkle_root(leaves)
    IN  IF IsRaise(root) THEN root
        ELSE LET prev == PrevRootField(prev_root)
                 root_text == _validate_hex32(Prefix0x(hex(root.value)))
             IN  IF IsRaise(prev) THEN prev
                 ELSE Ret([batch |-> [batch_id |-> batch_id,
                                      count |-> Len(entries),
                                      window_start |-> IF entries # <<>>
                                                       THEN strftime(entries[1].ts)
                                                       ELSE strftime(UtcNow),
                                      window_end |-> IF entries # <<>>
                                                     THEN strftime(entries[Len(entries)].ts)
                                                     ELSE strftime(UtcNow),
                                      hash_alg |-> "SHA-256",
                                      leaf_order |-> "ts_asc_seq",
                                      signer_alg |-> "ECDSA_secp256k1",
                                      signer_pub |-> None,
                                      prev_merkle_root |-> prev.value,
                                      root |-> root_text.value,
                                      sig |-> None],
                          leaves |-> [i \in 1..Len(leaves) |-> hex(leaves[i])],
                          proofs |-> EmptyDict])

(***************************************************************************)
(* Idle values of the variable groups a specification does not exercise.   *)
(***************************************************************************)
NoOut == [op |-> "none"]
HarnessIdle == inp = None /\ out = NoOut /\ pc = "idle"
ServiceIdle ==
    manifests = <<>> /\ latestRoot = ZeroHash /\ seenBatches = {} /\ pending = {} /\ resp = NoOut
StoreIdle == files = <<>> /\ mode = <<>> /\ clock = 0 /\ writer = <<>>

(***************************************************************************)
(* Merkle harness: every call of the Merkle engine on bounded inputs.      *)
(* Leaves are arbitrary 32-byte values, among them a value that is also    *)
(* the digest of an internal node, and indices range over the valid ones   *)
(* and the invalid ones from -1 to MaxLeaves.                              *)
(***************************************************************************)
LeafValues == {Raw(1), Raw(2), Sha256(Concat(Raw(1), Raw(2)))}

RECURSIVE SeqsUpTo(_, _)
SeqsUpTo(S, n) ==
    IF n = 0
    THEN {<<>>}
    ELSE LET shorter == SeqsUpTo(S, n - 1)
         IN  shorter \cup {Append(s, x) : s \in {t \in shorter : Len(t) = n - 1}, x \in S}

MerkleInputs ==
    {[leaves |-> l, index |-> i] : l \in SeqsUpTo(LeafValues, MaxLeaves), i \in -1..MaxLeaves}

\* Every digest the engine computes on the way from the leaves to the root.
RECURSIVE TreeNodes(_)
TreeNodes(level) ==
    {level[k] : k \in 1..Len(level)}
        \cup (IF Len(level) > 1 THEN TreeNodes(next_level(level)) ELSE {})

RootCandidates(leaves) == TreeNodes(leaves) \cup LeafValues \cup {ZeroHash}

InitMerkle ==
    /\ inp \in MerkleInputs
    /\ out = NoOut
    /\ pc = "ready"
    /\ ServiceIdle
    /\ StoreIdle

CallMerkleRoot ==
    /\ pc = "ready"
    /\ out' = [op |-> "merkle_root", ret |-> merkle_root(inp.leaves)]
    /\ pc' = "done"
    /\ UNCHANGED <<inp, serviceVars, storeVars>>

CallMerkleProof ==
    /\ pc = "ready"
    /\ out' = [op |-> "merkle_proof", ret |-> merkle_proof(inp.index, inp.leaves)]
    /\ pc' = "done"
    /\ UNCHANGED <<inp, serviceVars, storeVars>>

\* proof = merkle_proof(i, leaves); root = merkle_root(leaves);
\* verify_proof(leaves[i], proof, r) for r = root and for every other candidate.
CallVerifyProof ==
    /\ pc = "ready"
    /\ 0 <= inp.index /\ inp.index < Len(inp.leaves)
    /\ LET proof == merkle_proof(inp.index, inp.leaves).value
           root == merkle_root(inp.leaves).value
           leaf == At(inp.leaves, inp.index)
       IN  out' = [op |-> "verify_proof",
                   root |-> root,
                   proof |-> proof,
                   ret |-> verify_proof(leaf, proof, root),
                   accepted |-> {r \in RootCandidates(inp.leaves) :
                                    verify_proof(leaf, proof, r) = Ret(TRUE)}]
    /\ pc' = "done"
    /\ UNCHANGED <<inp, serviceVars, storeVars>>

\* A proof as a caller may hand it to verify_proof: the generated proof with
\* the sibling of its first entry possibly replaced and the direction of one
\* entry replaced by any direction text.
ProofDirections == {"left", "right", "up"}
ForeignSibling == Raw(7)

CallVerifyForeignProof ==
    /\ pc = "ready"
    /\ 0 <= inp.index /\ inp.index < Len(inp.leaves)
    /\ Len(inp.leaves) > 1
    /\ LET proof == merkle_proof(inp.index, inp.leaves).value
           root == merkle_root(inp.leaves).value
           leaf == At(inp.leaves, inp.index)
       IN  \E k \in 1..Len(proof), direction \in ProofDirections,
              sibling \in {proof[1][2], ForeignSibling} :
              LET resited == [proof EXCEPT ![1] = <<proof[1][1], sibling>>]
                  foreign == [resited EXCEPT ![k] = <<direction, resited[k][2]>>]
              IN  out' = [op |-> "verify_foreign_proof",
                          leaf |-> leaf,
                          root |-> root,
                          proof |-> foreign,
                          ret |-> verify_proof(leaf, foreign, root)]
    /\ pc' = "done"
    /\ UNCHANGED <<inp, serviceVars, storeVars>>

\* merkle_root of the leaves, and merkle_root of their level-1 node hashes
\* handed in as leaves.
CallRootOfNodes ==
    /\ pc = "ready"
    /\ Len(inp.leaves) >= 2
    /\ inp.index = -1
    /\ LET nodes == next_level(inp.leaves)
       IN  out' = [op |-> "root_of_nodes",
                   nodes |-> nodes,
                   leaves_root |-> merkle_root(inp.leaves),
                   ret |-> merkle_root(nodes)]
    /\ pc' = "done"
    /\ UNCHANGED <<inp, serviceVars, storeVars>>

\* merkle_root of an odd-length list and of the list with its last leaf
\* repeated; the proof for the last index of the shorter list, handed to
\* verify_proof with the last leaf and the root of the longer list.
CallRootOfExtended ==
    /\ pc = "ready"
    /\ Len(inp.leaves) >= 3
    /\ Len(inp.leaves) % 2 = 1
    /\ inp.index = -1
    /\ LET n == Len(inp.leaves)
           longer == Append(inp.leaves, At(inp.leaves, n - 1))
           proof == merkle_proof(n - 1, inp.leaves).value
       IN  out' = [op |-> "root_of_extended",
                   longer |-> longer,
                   root |-> merkle_root(inp.leaves),
                   ret |-> merkle_root(longer),
                   proof |-> proof,
                   accepted |-> verify_proof(At(longer, n), proof, merkle_root(longer).value)]
    /\ pc' = "done"
    /\ UNCHANGED <<inp, serviceVars, storeVars>>

NextMerkle ==
    \/ CallRootOfExtended
    \/ CallMerkleRoot
    \/ CallMerkleProof
    \/ CallVerifyProof
    \/ CallVerifyForeignProof
    \/ CallRootOfNodes

SpecMerkle == InitMerkle /\ [][NextMerkle]_vars

(***************************************************************************)
(* Batch harness: the canonical encoder and the batch assembler on bounded *)
(* inputs.  The entries of a batch come from a small sample; a tampered    *)
(* entry may take any value of the wider tamper domains.                   *)
(***************************************************************************)
SampleTimes == {DateTime(0, 0), DateTime(0, 500000), DateTime(1, 0)}
SampleFields == {EmptyDict, "user" :> JStr("alice"), "msg" :> JStr("logout")}
SampleEntries ==
    {LogEntry(t, "authsvc", "INFO", "login", f) : t \in SampleTimes, f \in SampleFields}

PrevRootInputs ==
    {None, BadHexText, HexText(TRUE, FALSE, ZeroHash)}
        \cup {HexText(p, u, Raw(1)) : p \in BOOLEAN, u \in BOOLEAN}

TamperTimes == SampleTimes \cup {DateTime(2, 0)}
TamperStrings == {"authsvc", "INFO", "login", "logout", "mallory"}
TamperKeys == {"user", "msg"}
TamperValues == {JStr("alice"), JStr("mallory"), JStr("login"), JStr("logout")}

\* The dicts that differ from d in exactly one key: its value changed, the
\* key added, or the key removed.
OneKeyChanges(d) ==
    {DictUpdate(d, k :> v) : k \in TamperKeys, v \in TamperValues}
        \cup {[j \in DOMAIN d \ {k} |-> d[j]] : k \in DOMAIN d}

\* The entries that differ from e in exactly one field.
OneFieldChanges(e) ==
    ({[e EXCEPT !.ts = t] : t \in TamperTimes}
        \cup {[e EXCEPT !.source_id = x] : x \in TamperStrings}
        \cup {[e EXCEPT !.level = x] : x \in TamperStrings}
        \cup {[e EXCEPT !.msg = x] : x \in TamperStrings}
        \cup {[e EXCEPT !.fields = d] : d \in OneKeyChanges(e.fields)}) \ {e}

InitBatch ==
    /\ inp \in {[entries |-> es, prev_root |-> p] :
                    es \in SeqsUpTo(SampleEntries, MaxBatch), p \in PrevRootInputs}
    /\ out = NoOut
    /\ pc = "ready"
    /\ ServiceIdle
    /\ StoreIdle

CallBuildManifest ==
    /\ pc = "ready"
    /\ out' = [op |-> "build_manifest",
               ret |-> build_manifest("b1", inp.entries, inp.prev_root)]
    /\ pc' = "done"
    /\ UNCHANGED <<inp, serviceVars, storeVars>>

\* merkle_root over the leaf hashes of the batch, as build_manifest calls it.
CallMerkleRootOfBatch ==
    /\ pc = "ready"
    /\ out' = [op |-> "merkle_root", ret |-> merkle_root(LeafHashes(inp.entries))]
    /\ pc' = "done"
    /\ UNCHANGED <<inp, serviceVars, storeVars>>

\* Two fields dicts that hold the same key/value pairs, each in its own
\* insertion order.
FieldItems == {<<"user", JStr("alice")>>, <<"msg", JStr("logout")>>, <<"details", JStr("vpn")>>}
OrderedFields ==
    {items \in SeqsUpTo(FieldItems, 3) : Cardinality(ItemKeys(items)) = Len(items)}

\* canonical_leaf and leaf_hash of one entry under two insertion orders of
\* its fields.
CallCanonicalLeaf ==
    /\ pc = "ready"
    /\ Len(inp.entries) = 1
    /\ inp.prev_root = None
    /\ \E first \in OrderedFields, second \in OrderedFields :
          /\ DictOfItems(first) = DictOfItems(second)
          /\ out' = [op |-> "canonical_leaf",
                     first |-> first,
                     second |-> second,
                     first_leaf |-> CanonicalLeafOfItems(inp.entries[1], first),
                     second_leaf |-> CanonicalLeafOfItems(inp.entries[1], second),
                     first_hash |-> Sha256(CanonicalLeafOfItems(inp.entries[1], first)),
                     second_hash |-> Sha256(CanonicalLeafOfItems(inp.entries[1], second))]
    /\ pc' = "done"
    /\ UNCHANGED <<inp, serviceVars, storeVars>>

\* Raw payloads as json.loads hands them to LogEntry.parse_obj: a well-formed
\* one, and the ones that differ from it in one base field, removed or
\* replaced by a value of another type or an unparseable text.
GoodPayload ==
    [k \in {"ts", "source_id", "level", "msg"} |->
        CASE k = "ts" -> JStr("0Z")
          [] k = "source_id" -> JStr("authsvc")
          [] k = "level" -> JStr("INFO")
          [] k = "msg" -> JStr("login")]

ForeignValues == {None, JNum(5), JObj(EmptyDict), JStr("yesterday")}

\* Payloads with top-level keys beside the base keys and with a fields
\* member: absent, null, an object (empty, sharing a key with the top level,
\* naming a base key), a number or a text.
DynamicItems ==
    [k \in {"user", "details"} |->
        IF k = "user" THEN JStr("alice") ELSE JObj("pid" :> JNum(1234))]

FieldsMembers ==
    {None, JObj(EmptyDict), JObj("user" :> JStr("bob")), JObj("ts" :> JStr("1Z")),
     JObj("region" :> JStr("eu")), JNum(5), JStr("eu")}

MergePayloads ==
    LET tops == {GoodPayload @@ [k \in keys |-> DynamicItems[k]] :
                    keys \in SUBSET DOMAIN DynamicItems}
    IN  tops \cup {top @@ [k \in {"fields"} |-> f] : top \in tops, f \in FieldsMembers}

RawPayloads ==
    {GoodPayload}
        \cup {[j \in DOMAIN GoodPayload \ {k} |-> GoodPayload[j]] : k \in DOMAIN GoodPayload}
        \cup {[GoodPayload EXCEPT ![k] = v] : k \in DOMAIN GoodPayload, v \in ForeignValues}
        \cup MergePayloads

\* read_jsonl and the leaf computation: parse_obj, then leaf_hash of the
\* entry it returned, if any.
CallParseAndHash ==
    /\ pc = "ready"
    /\ inp.entries = <<>>
    /\ inp.prev_root = None
    /\ \E payload \in RawPayloads :
          LET parsed == parse_obj(payload)
          IN  out' = [op |-> "parse_obj",
                      payload |-> payload,
                      ret |-> parsed,
                      leaf |-> IF IsRaise(parsed) THEN None ELSE leaf_hash(parsed.value)]
    /\ pc' = "done"
    /\ UNCHANGED <<inp, serviceVars, storeVars>>

\* Payloads whose ts is a datetime with a fraction of a second, or the text
\* of an instant before the year 1000.
RoundTripPayloads ==
    RawPayloads
        \cup {[GoodPayload EXCEPT !["ts"] = t] :
                 t \in {DateTime(0, 500000), JStr(FourDigitYearText(-1))}}

\* _prepare_entries and _reconstruct_entries on one entry: parse_obj of a
\* payload, the entry's dict() through json, parse_obj of that, and the
\* leaf hash of both entries.
CallRoundTrip ==
    /\ pc = "ready"
    /\ inp.entries = <<>>
    /\ inp.prev_root = None
    /\ \E payload \in RoundTripPayloads :
          /\ ~IsRaise(parse_obj(payload))
          /\ LET entry == parse_obj(payload).value
                 again == parse_obj(EntryDict(entry))
             IN  out' = [op |-> "round_trip",
                         payload |-> payload,
                         entry |-> entry,
                         leaf |-> leaf_hash(entry),
                         again |-> again,
                         leaf_again |-> IF IsRaise(again) THEN None
                                        ELSE leaf_hash(again.value)]
    /\ pc' = "done"
    /\ UNCHANGED <<inp, serviceVars, storeVars>>

\* batcher.main: gather_entries, the empty check, build_manifest.
CallPipeline ==
    /\ pc = "ready"
    /\ LET batch_inputs == gather_entries([sources |-> <<inp.entries>>,
                                           state_prev |-> inp.prev_root])
       IN  out' = [op |-> "pipeline",
                   ret |-> IF batch_inputs.entries = <<>>
                           THEN Raise("No entries to batch")
                           ELSE build_manifest("b1", batch_inputs.entries,
                                               batch_inputs.prev_root)]
    /\ pc' = "done"
    /\ UNCHANGED <<inp, serviceVars, storeVars>>

\* Two sequential batches: B1 is a genesis batch, B2 is built with
\* prev_root = B1's manifest root.
CallBuildChain ==
    /\ pc = "ready"
    /\ inp.prev_root = None
    /\ inp.entries # <<>>
    /\ \E e \in SampleEntries :
          LET b1 == build_manifest("b1", inp.entries, None).value
              b2 == build_manifest("b2", <<e>>, b1.batch.root).value
          IN  out' = [op |-> "chain", b1 |-> b1, b2 |-> b2]
    /\ pc' = "done"
    /\ UNCHANGED <<inp, serviceVars, storeVars>>

\* tests/test_merkle_pipeline.py, test_merkle_proof_detects_tampering: the
\* proof and root of the batch, then the leaf hash of a tampered entry
\* checked against them.
CallTamper ==
    /\ pc = "ready"
    /\ inp.prev_root = None
    /\ \E i \in 0..(Len(inp.entries) - 1) :
          \E tampered \in OneFieldChanges(At(inp.entries, i)) :
              LET leaves == LeafHashes(inp.entries)
                  proof == merkle_proof(i, leaves).value
                  root == merkle_root(leaves).value
              IN  out' = [op |-> "tamper",
                          index |-> i,
                          tampered |-> tampered,
                          original_ok |-> verify_proof(At(leaves, i), proof, root),
                          tampered_ok |-> verify_proof(leaf_hash(tampered), proof, root)]
    /\ pc' = "done"
    /\ UNCHANGED <<inp, serviceVars, storeVars>>

NextBatch ==
    \/ CallBuildManifest
    \/ CallMerkleRootOfBatch
    \/ CallCanonicalLeaf
    \/ CallParseAndHash
    \/ CallRoundTrip
    \/ CallPipeline
    \/ CallBuildChain
    \/ CallTamper

SpecBatch == InitBatch /\ [][NextBatch]_vars

(***************************************************************************)
(* Manifest store: batcher.persist_manifest and AppendOnlyStore.append_json *)
(* as sequences of file-system steps taken by concurrent writers.          *)
(*   persist_manifest: open(path, "w") ; json.dump + close                 *)
(*   append_json: timestamp + path.exists() ; open(path, "w") ;            *)
(*                json.dump + close ; os.chmod(path, 0o440)                *)
(***************************************************************************)
Writers == {"w1", "w2"}
StoreNames == {"b1"}
StorePayloads == {"m1", "m2"}
Absent == "absent"
Truncated == "empty"

ManifestPath(batch_id) == [dir |-> "manifests", file |-> batch_id]
StampedPath(name, timestamp) == [name |-> name, stamp |-> timestamp]
StorePaths ==
    {ManifestPath(n) : n \in StoreNames}
        \cup {StampedPath(n, t) : n \in StoreNames, t \in 0..MaxClock}

IdleWriter == [pc |-> "idle"]

\* Whether some manifest of this name is already on disk, completely
\* written, under either naming scheme.
Persisted(name) ==
    \E p \in StorePaths :
        /\ files[p] \in StorePayloads
        /\ p = ManifestPath(name) \/ \E t \in 0..MaxClock : p = StampedPath(name, t)

InitStore ==
    /\ files = [p \in StorePaths |-> Absent]
    /\ mode = [p \in StorePaths |-> "rw"]
    /\ clock = 0
    /\ writer = [w \in Writers |-> IdleWriter]
    /\ HarnessIdle
    /\ ServiceIdle

Tick ==
    /\ clock < MaxClock
    /\ clock' = clock + 1
    /\ UNCHANGED <<files, mode, writer, harnessVars, serviceVars>>

\* persist_manifest is entered: mkdir, manifest_path computed.
PersistBegin(w, batch_id, manifest) ==
    /\ writer[w].pc = "idle"
    /\ writer' = [writer EXCEPT ![w] = [pc |-> "open", op |-> "persist_manifest",
                                        name |-> batch_id, payload |-> manifest,
                                        path |-> ManifestPath(batch_id),
                                        had |-> Persisted(batch_id),
                                        prior |-> files[ManifestPath(batch_id)]]]
    /\ UNCHANGED <<files, mode, clock, harnessVars, serviceVars>>

\* append_json is entered: the timestamp, the path, and the existence check.
AppendExists(path) == files[path] # Absent

AppendBegin(w, name, payload) ==
    /\ writer[w].pc = "idle"
    /\ LET path == StampedPath(name, clock)
           call == [op |-> "append_json", name |-> name, payload |-> payload,
                    path |-> path, had |-> Persisted(name), prior |-> files[path]]
       IN  writer' = [writer EXCEPT ![w] =
                        IF AppendExists(path)
                        THEN call @@ [pc |-> "done", result |-> "FileExistsError"]
                        ELSE call @@ [pc |-> "open"]]
    /\ UNCHANGED <<files, mode, clock, harnessVars, serviceVars>>

\* path.open("w"): creates or truncates; a read-only file refuses an
\* unprivileged writer.
OpenForWrite(w) ==
    /\ writer[w].pc = "open"
    /\ \E privileged \in BOOLEAN :
          LET path == writer[w].path
          IN  IF files[path] # Absent /\ mode[path] = "r" /\ ~privileged
              THEN /\ writer' = [writer EXCEPT ![w] =
                                    [@ EXCEPT !.pc = "done"] @@ [result |-> "PermissionError"]]
                   /\ UNCHANGED files
              ELSE /\ files' = [files EXCEPT ![path] = Truncated]
                   /\ writer' = [writer EXCEPT ![w].pc = "dump"]
    /\ UNCHANGED <<mode, clock, harnessVars, serviceVars>>

\* json.dump(payload, handle) and the close of the with block.
DumpAndClose(w) ==
    /\ writer[w].pc = "dump"
    /\ files' = [files EXCEPT ![writer[w].path] = writer[w].payload]
    /\ writer' = [writer EXCEPT ![w] =
                    IF @.op = "append_json"
                    THEN [@ EXCEPT !.pc = "chmod"]
                    ELSE [@ EXCEPT !.pc = "done"] @@ [result |-> "ok"]]
    /\ UNCHANGED <<mode, clock, harnessVars, serviceVars>>

\* os.chmod(path, 0o440) and the return of append_json.
Chmod(w) ==
    /\ writer[w].pc = "chmod"
    /\ mode' = [mode EXCEPT ![writer[w].path] = "r"]
    /\ writer' = [writer EXCEPT ![w] = [@ EXCEPT !.pc = "done"] @@ [result |-> "ok"]]
    /\ UNCHANGED <<files, clock, harnessVars, serviceVars>>

\* The caller takes the result; the writer may be called again.
WriterReturn(w) ==
    /\ writer[w].pc = "done"
    /\ writer' = [writer EXCEPT ![w] = IdleWriter]
    /\ UNCHANGED <<files, mode, clock, harnessVars, serviceVars>>

NextStore ==
    \/ Tick
    \/ \E w \in Writers, n \in StoreNames, m \in StorePayloads : PersistBegin(w, n, m)
    \/ \E w \in Writers, n \in StoreNames, m \in StorePayloads : AppendBegin(w, n, m)
    \/ \E w \in Writers : OpenForWrite(w)
    \/ \E w \in Writers : DumpAndClose(w)
    \/ \E w \in Writers : Chmod(w)
    \/ \E w \in Writers : WriterReturn(w)

SpecStore == InitStore /\ [][NextStore]_vars

EntryOne == LogEntry(DateTime(0, 0), "authsvc", "INFO", "login", "user" :> JStr("alice"))
EntryTwo == LogEntry(DateTime(1, 0), "authsvc", "INFO", "logout", EmptyDict)

(***************************************************************************)
(* Effects of the engine and the assembler on the objects of their caller. *)
(* A caller holds, per batch, the list object entries and the list object  *)
(* leaves = [leaf_hash(e) for e in entries]; a call works on a heap of     *)
(* these objects plus its local list object level, and returns its result  *)
(* together with the heap it leaves behind.  The only in-place mutation in *)
(* merkle.py is level.append(level[-1]) in merkle_proof.                   *)
(***************************************************************************)
MaxCalls == 2
MaxPureBatch == 3

AliasOfArgument(argument) == argument

\* level = list(leaves): level names a new list object, not the argument.
ListCopy(argument) == "level"

CallerHeap(entries) == [entries |-> entries, leaves |-> LeafHashes(entries), level |-> <<>>]

\* At return the local object is unreachable; the caller keeps its own.
AfterReturn(heap) == [heap EXCEPT !.level = <<>>]

MerkleRootRun(heap) ==
    IF heap.leaves = <<>>
    THEN [ret |-> Raise("ValueError"), heap |-> heap]
    ELSE LET level == ListCopy("leaves")
             started == [heap EXCEPT ![level] = heap.leaves]
         IN  [ret |-> Ret(MerkleRootLoop(started[level])), heap |-> AfterReturn(started)]

MerkleProofRun(target_index, heap) ==
    IF ~(0 <= target_index /\ target_index < Len(heap.leaves))
    THEN [ret |-> Raise("IndexError"), heap |-> heap]
    ELSE LET level == ListCopy("leaves")
             started == [heap EXCEPT ![level] = heap.leaves]
             \* first pass of the loop: level.append(level[-1]) on the object
             \* level names; every later pass works on a new next_level list
             appended == IF Len(started[level]) > 1 /\ Len(started[level]) % 2 = 1
                         THEN [started EXCEPT ![level] = Append(@, @[Len(@)])]
                         ELSE started
         IN  [ret |-> Ret(MerkleProofLoop(target_index, started[level], <<>>)),
              heap |-> AfterReturn(appended)]

\* verify_proof reads leaf, proof and expected_root and binds only computed.
VerifyProofRun(leaf, proof, expected_root, heap) ==
    [ret |-> verify_proof(leaf, proof, expected_root), heap |-> heap]

\* build_manifest builds new lists (leaves, the manifest) and reads entries.
BuildManifestRun(batch_id, prev_root, heap) ==
    [ret |-> build_manifest(batch_id, heap.entries, prev_root), heap |-> heap]

(***************************************************************************)
(* Purity harness: two batches, each with its own objects, and calls of    *)
(* the four functions on either batch in any order.                        *)
(***************************************************************************)
PureBatches == {"A", "B"}
PureEntries == SeqsUpTo({EntryOne, EntryTwo}, MaxPureBatch) \ {<<>>}

InitPure ==
    /\ inp \in [PureBatches -> PureEntries]
    /\ out = [heap |-> [b \in PureBatches |-> CallerHeap(inp[b])], calls |-> 0, last |-> NoOut]
    /\ pc = "ready"
    /\ ServiceIdle
    /\ StoreIdle

Returned(b, call, run) ==
    /\ out.calls < MaxCalls
    /\ out' = [heap |-> [out.heap EXCEPT ![b] = run.heap],
               calls |-> out.calls + 1,
               last |-> call @@ [batch |-> b, ret |-> run.ret]]
    /\ UNCHANGED <<inp, pc, serviceVars, storeVars>>

PureMerkleRoot ==
    \E b \in PureBatches :
        Returned(b, [op |-> "merkle_root"], MerkleRootRun(out.heap[b]))

PureMerkleProof ==
    \E b \in PureBatches, i \in 0..(MaxPureBatch - 1) :
        Returned(b, [op |-> "merkle_proof", index |-> i], MerkleProofRun(i, out.heap[b]))

PureVerifyProof ==
    \E b \in PureBatches, i \in 0..(MaxPureBatch - 1) :
        /\ i < Len(out.heap[b].leaves)
        /\ LET heap == out.heap[b]
               proved == MerkleProofRun(i, heap)
               rooted == MerkleRootRun(proved.heap)
           IN  Returned(b, [op |-> "verify_proof", index |-> i],
                        VerifyProofRun(At(rooted.heap.leaves, i), proved.ret.value,
                                       rooted.ret.value, rooted.heap))

PureBuildManifest ==
    \E b \in PureBatches :
        Returned(b, [op |-> "build_manifest"], BuildManifestRun(b, None, out.heap[b]))

NextPure == PureMerkleRoot \/ PureMerkleProof \/ PureVerifyProof \/ PureBuildManifest

SpecPure == InitPure /\ [][NextPure]_vars

(***************************************************************************)
(* api.py: the anchor_batch and verify handlers, the manifest directory    *)
(* and the ledger (the LogAnchor contract behind Web3).                    *)
(***************************************************************************)
BatchIds == {"b1", "b2"}

EntryA == LogEntry(DateTime(0, 0), "authsvc", "INFO", "login", "user" :> JStr("alice"))
EntryB == LogEntry(DateTime(1, 0), "authsvc", "INFO", "logout", EmptyDict)
EntryC == LogEntry(DateTime(2, 0), "authsvc", "WARN", "denied", "user" :> JStr("mallory"))

\* What the configured source file may hold when a request arrives, lines
\* in file order.
SourceLogs == {<<>>, <<EntryB, EntryA>>, <<EntryB, EntryA, EntryC>>}

RootOf(entries) == merkle_root(LeafHashes(entries)).value
RootText(val) == Prefix0x(hex(val))

\* config["state"]["prev_merkle_root"] as gather_entries reads it.  No code
\* of the service writes the state section; the service runs are studied
\* with a configuration that has none.  (The batch harness covers
\* build_manifest on every form of prev_root.)
ConfigPrevRoots == {None}

NoFile == [nofile |-> TRUE]

HttpError(op, code, detail) == [op |-> op, status |-> code, detail |-> detail]

_bytes32(value) ==
    IF value = None THEN Ret(ZeroHash)
    ELSE IF ~IsHex64(value) THEN Raise(400)
    ELSE Ret(value.val)

\* Web3.to_hex(bytes32)
to_hex(val) == HexText(TRUE, FALSE, val)

_prepare_entries(entries) == [i \in 1..Len(entries) |-> EntryDict(entries[i])]

\* [LogEntry.parse_obj(payload) for payload in entries_payload]; the first
\* failure propagates.
_reconstruct_entries(entries_payload) ==
    LET parsed == [i \in 1..Len(entries_payload) |-> parse_obj(entries_payload[i])]
    IN  IF \E i \in 1..Len(parsed) : IsRaise(parsed[i])
        THEN Raise("Failed to parse entries")
        ELSE Ret([i \in 1..Len(parsed) |-> parsed[i].value])

\* An anchor transaction: the arguments of LogAnchor.anchor.
AnchorTx(batch_id, manifest) ==
    [batch_id |-> batch_id,
     root |-> _bytes32(manifest.batch.root).value,
     prev |-> _bytes32(manifest.batch.prev_merkle_root).value]

\* The ledger collaborator: a mined, successful anchor call makes its root
\* the latest root and marks the batch seen.
LedgerApply(tx) ==
    /\ latestRoot' = tx.root
    /\ seenBatches' = seenBatches \cup {tx.batch_id}

\* How _anchor_on_chain can end.
\*   unreachable  _get_web3 or the configuration checks raise
\*   rejected     transact raises ContractLogicError
\*   submitted    wait_for_receipt is false: the transaction hash is returned
\*   mined        the receipt arrives with status 1
\*   reverted     the receipt arrives with status 0
\*   timeout      wait_for_transaction_receipt raises
ChainOutcomes(wait_for_receipt) ==
    IF wait_for_receipt
    THEN {"unreachable", "rejected", "mined", "reverted", "timeout"}
    ELSE {"unreachable", "rejected", "submitted"}

anchor_batch(batch_id, source, state_prev, wait_for_receipt, outcome) ==
    LET batch_inputs == gather_entries([sources |-> <<source>>, state_prev |-> state_prev])
        built == build_manifest(batch_id, batch_inputs.entries, batch_inputs.prev_root)
    IN  IF batch_inputs.entries = <<>>
        THEN /\ resp' = HttpError("anchor_batch", 400, "No log entries available for batching")
             /\ UNCHANGED <<manifests, latestRoot, seenBatches, pending>>
        ELSE IF IsRaise(built)
        THEN /\ resp' = HttpError("anchor_batch", 500, built.error)
             /\ UNCHANGED <<manifests, latestRoot, seenBatches, pending>>
        ELSE LET with_entries == built.value @@ [entries |-> _prepare_entries(batch_inputs.entries)]
                 tx == AnchorTx(batch_id, with_entries)
             IN  CASE outcome = "unreachable" ->
                        /\ resp' = HttpError("anchor_batch", 502, "Unable to connect to RPC")
                        /\ UNCHANGED <<manifests, latestRoot, seenBatches, pending>>
                   [] outcome = "rejected" ->
                        /\ resp' = HttpError("anchor_batch", 400, "Contract rejected anchor")
                        /\ UNCHANGED <<manifests, latestRoot, seenBatches, pending>>
                   [] outcome = "timeout" ->
                        /\ Cardinality(pending \cup {tx}) <= MaxPending
                        /\ pending' = pending \cup {tx}
                        /\ resp' = HttpError("anchor_batch", 500, "TimeExhausted")
                        /\ UNCHANGED <<manifests, latestRoot, seenBatches>>
                   [] OTHER ->
                        LET receipt == CASE outcome = "mined" -> [status |-> 1]
                                         [] outcome = "reverted" -> [status |-> 0]
                                         [] OTHER -> None
                            manifest == with_entries @@ [chain |-> [tx_hash |-> tx, receipt |-> receipt]]
                        IN  /\ CASE outcome = "mined" ->
                                      LedgerApply(tx) /\ UNCHANGED pending
                                 [] outcome = "reverted" ->
                                      UNCHANGED <<latestRoot, seenBatches, pending>>
                                 [] OTHER ->
                                      /\ Cardinality(pending \cup {tx}) <= MaxPending
                                      /\ pending' = pending \cup {tx}
                                      /\ UNCHANGED <<latestRoot, seenBatches>>
                            /\ manifests' = [manifests EXCEPT ![batch_id] = manifest]
                            /\ resp' = [op |-> "anchor_batch", status |-> 200,
                                        batch_id |-> batch_id,
                                        merkle_root |-> manifest.batch.root,
                                        transaction_hash |-> tx,
                                        receipt |-> receipt,
                                        entry_count |-> Len(batch_inputs.entries)]

\* One request is in flight at a time: a handler runs when the previous
\* response has been delivered.
AnchorBatch ==
    /\ resp = NoOut
    /\ \E batch_id \in BatchIds, source \in SourceLogs, state_prev \in ConfigPrevRoots,
       wait_for_receipt \in BOOLEAN :
          \E outcome \in ChainOutcomes(wait_for_receipt) :
              /\ anchor_batch(batch_id, source, state_prev, wait_for_receipt, outcome)
              /\ UNCHANGED <<harnessVars, storeVars>>

\* The ledger mines a pending transaction: it succeeds or reverts.
MineTx ==
    \E tx \in pending, success \in BOOLEAN :
        /\ resp = NoOut
        /\ pending' = pending \ {tx}
        /\ IF success THEN LedgerApply(tx) ELSE UNCHANGED <<latestRoot, seenBatches>>
        /\ UNCHANGED <<manifests, resp, harnessVars, storeVars>>

\* _fetch_on_chain_root: None when the chain section or the contract
\* address is not configured, otherwise the hex text of latestRoot().
_fetch_on_chain_root(chain_configured) ==
    IF ~chain_configured THEN None ELSE to_hex(latestRoot)

\* A comparison that accepts whatever root the ledger holds.
RootMatchesAnyChainRoot(on_chain_root, root_hex) == on_chain_root # None

RootMatchesChainUnchecked(on_chain_root, root_hex) ==
    on_chain_root = None \/ lower(on_chain_root) = lower(root_hex)

RootMatchesChain(on_chain_root, root_hex) ==
    on_chain_root # None /\ lower(on_chain_root) = lower(root_hex)

VerifiedProofOnly(proof_valid, root_matches_chain) == proof_valid

Verified(proof_valid, root_matches_chain) == proof_valid /\ root_matches_chain

IndexBeyondEnd(entry_index, entries) == entry_index > Len(entries)

\* if entry_index >= len(entries)
IndexOutOfRange(entry_index, entries) == entry_index >= Len(entries)

\* Leaves taken from the manifest's stored leaf list.
LeavesOfManifest(manifest, entries) ==
    [i \in 1..Len(manifest.leaves) |-> manifest.leaves[i].val]

\* leaves = [merkle.leaf_hash(entry) for entry in entries]
VerifyLeaves(manifest, entries) == LeafHashes(entries)

\* leaves[entry_index] and merkle_proof raise IndexError for an index the
\* range check let through; FastAPI answers an unhandled exception with 500.
verify(batch_id, entry_index, chain_configured) ==
    LET manifest == manifests[batch_id]
        Fail(code, detail) == HttpError("verify", code, detail)
    IN  IF manifest = NoFile THEN Fail(404, "Manifest not found")
        ELSE IF manifest.batch.batch_id # batch_id
        THEN Fail(409, "Batch identifier mismatch in manifest")
        ELSE IF "entries" \notin DOMAIN manifest \/ manifest.entries = <<>>
        THEN Fail(400, "Manifest does not include serialized entries")
        ELSE LET entries == _reconstruct_entries(manifest.entries)
             IN  IF IsRaise(entries) THEN Fail(400, "Failed to parse entries")
                 ELSE IF IndexOutOfRange(entry_index, entries.value)
                 THEN Fail(404, "Entry index out of range for manifest")
                 ELSE LET leaves == VerifyLeaves(manifest, entries.value)
                          leaf == At(leaves, entry_index)
                          proof == merkle_proof(entry_index, leaves).value
                          root_hex == manifest.batch.root
                      IN  IF IsRaise(merkle_proof(entry_index, leaves))
                          THEN Fail(500, "IndexError")
                          ELSE IF root_hex = None THEN Fail(400, "Manifest missing Merkle root")
                          ELSE IF IsRaise(_bytes32(root_hex))
                          THEN Fail(400, "Expected 32-byte hex value")
                          ELSE LET expected_root == _bytes32(root_hex).value
                                   proof_valid == verify_proof(leaf, proof, expected_root).value
                                   on_chain_root == _fetch_on_chain_root(chain_configured)
                                   root_matches_chain == RootMatchesChain(on_chain_root, root_hex)
                               IN  [op |-> "verify", status |-> 200,
                                    batch_id |-> batch_id,
                                    entry_index |-> entry_index,
                                    leaf |-> RootText(leaf),
                                    proof |-> [k \in 1..Len(proof) |->
                                                 [direction |-> proof[k][1],
                                                  hash |-> RootText(proof[k][2])]],
                                    manifest_root |-> root_hex,
                                    on_chain_root |-> on_chain_root,
                                    proof_valid |-> proof_valid,
                                    root_matches_chain |-> root_matches_chain,
                                    verified |-> Verified(proof_valid, root_matches_chain)]

\* What held on the ledger while the request ran (not part of the response):
\* the root latestRoot() held, whether the chain was reachable through the
\* configuration, whether an anchor transaction of the batch was still
\* pending, and whether the ledger had anchored the batch.
Observed(batch_id, chain_configured) ==
    [ledger_root |-> latestRoot,
     chain_configured |-> chain_configured,
     tx_pending |-> \E tx \in pending : tx.batch_id = batch_id,
     batch_seen |-> batch_id \in seenBatches]

MaxEntryIndex == 2

Verify ==
    \E batch_id \in BatchIds, entry_index \in 0..MaxEntryIndex, chain_configured \in BOOLEAN :
        /\ resp = NoOut
        /\ resp' = verify(batch_id, entry_index, chain_configured)
                      @@ [observed |-> Observed(batch_id, chain_configured),
                          request |-> [batch_id |-> batch_id, entry_index |-> entry_index]]
        /\ UNCHANGED <<manifests, latestRoot, seenBatches, pending, harnessVars, storeVars>>

\* A manifest written into the manifest directory by another producer: the
\* manifest of the two-entry batch with its root in another text form,
\* absent, malformed or wrong, without the serialized entries, or with
\* another leaf list.
ForeignManifests(batch_id) ==
    LET entries == <<EntryA, EntryB>>
        base == build_manifest(batch_id, entries, None).value
                    @@ [entries |-> _prepare_entries(entries)]
        root == RootOf(entries)
        WithRoot(r) == [base EXCEPT !.batch.root = r]
    IN  {WithRoot(hex(root)),
         WithRoot(HexText(TRUE, TRUE, root)), WithRoot(None), WithRoot(BadHexText),
         WithRoot(RootText(Raw(1))),
         build_manifest(batch_id, entries, None).value,
         [base EXCEPT !.leaves = <<hex(Raw(1)), hex(Raw(2))>>]}

PlaceManifest ==
    \E batch_id \in BatchIds :
        \E manifest \in ForeignManifests(batch_id) :
            /\ resp = NoOut
            /\ manifests' = [manifests EXCEPT ![batch_id] = manifest]
            /\ UNCHANGED <<latestRoot, seenBatches, pending, resp, harnessVars, storeVars>>

Init ==
    /\ manifests = [b \in BatchIds |-> NoFile]
    /\ latestRoot = ZeroHash
    /\ seenBatches = {}
    /\ pending = {}
    /\ resp = NoOut
    /\ HarnessIdle
    /\ StoreIdle

\* The client receives the response.
Deliver ==
    /\ resp # NoOut
    /\ resp' = NoOut
    /\ UNCHANGED <<manifests, latestRoot, seenBatches, pending, harnessVars, storeVars>>

Next == AnchorBatch \/ MineTx \/ Verify \/ PlaceManifest \/ Deliver

Spec == Init /\ [][Next]_vars

(***************************************************************************)
(* Claims about the Merkle engine (checked under SpecMerkle).              *)
(***************************************************************************)

\* C1: for every non-empty leaves and every valid index i,
\* verify_proof(leaves[i], merkle_proof(i, leaves), r) is true for
\* r = merkle_root(leaves) and false for every other 32-byte value r.
C1_ProofVerifiesOnlyAgainstRoot ==
    (pc = "done" /\ out.op = "verify_proof") =>
        /\ out.ret = Ret(TRUE)
        /\ out.accepted = {out.root}

\* The spec's scenario: four leaves, the proof for index 2 has two entries.
C1_Witness ==
    /\ pc = "done"
    /\ out.op = "verify_proof"
    /\ Len(inp.leaves) = 4
    /\ inp.index = 2
    /\ Len(out.proof) = 2
    /\ out.ret = Ret(TRUE)
    /\ Cardinality(RootCandidates(inp.leaves)) > 4

\* Reference definition of the tree, top down: the node at height h and
\* position j hashes its two children of height h - 1, and a node without a
\* right sibling is paired with itself.
RECURSIVE Pow2(_)
Pow2(h) == IF h = 0 THEN 1 ELSE 2 * Pow2(h - 1)

LevelCount(n, h) == (n + Pow2(h) - 1) \div Pow2(h)

RECURSIVE TreeHeight(_, _)
TreeHeight(n, h) == IF LevelCount(n, h) <= 1 THEN h ELSE TreeHeight(n, h + 1)

RECURSIVE RefNode(_, _, _)
RefNode(leaves, h, j) ==
    IF h = 0
    THEN At(leaves, j)
    ELSE LET l == RefNode(leaves, h - 1, 2 * j)
             r == IF 2 * j + 1 < LevelCount(Len(leaves), h - 1)
                  THEN RefNode(leaves, h - 1, 2 * j + 1)
                  ELSE l
         IN  Sha256(Concat(l, r))

RefRoot(leaves) == RefNode(leaves, TreeHeight(Len(leaves), 0), 0)

\* C6: merkle_root pairs adjacent hashes left to right level by level and
\* pairs the last hash of an odd level with itself: the result equals the
\* reference tree, and merkle_root([L0,L1,L2]) = H(H(L0||L1) || H(L2||L2)).
C6_RootDuplicatesOddLast ==
    (pc = "done" /\ out.op = "merkle_root" /\ inp.leaves # <<>>) =>
        /\ out.ret = Ret(RefRoot(inp.leaves))
        /\ Len(inp.leaves) = 3 =>
              out.ret.value =
                  Sha256(Concat(Sha256(Concat(inp.leaves[1], inp.leaves[2])),
                                Sha256(Concat(inp.leaves[3], inp.leaves[3]))))

\* Five leaves: an odd level of leaves and an odd level of three nodes above it.
C6_Witness ==
    /\ pc = "done"
    /\ out.op = "merkle_root"
    /\ Len(inp.leaves) = 5
    /\ inp.leaves[4] # inp.leaves[5]
    /\ out.ret = Ret(RefRoot(inp.leaves))

(***************************************************************************)
(* Claims about the encoder and the batch assembler (under SpecBatch).     *)
(***************************************************************************)

\* C2: replacing the target entry by one that differs from it in any one
\* field (ts, source_id, level, msg, or a key/value of fields) and
\* recomputing leaf_hash makes verify_proof false against the original
\* proof and root.
C2_TamperedEntryFailsProof ==
    (pc = "done" /\ out.op = "tamper") => out.tampered_ok = Ret(FALSE)

\* C3: build_manifest hashes the entries in timestamp-ascending order, ties
\* in their original order: leaves and root are those of the stably sorted
\* entries, whatever the input order.
C3_BuildManifestSortsEntries ==
    (pc = "done" /\ out.op = "build_manifest" /\ ~IsRaise(out.ret)) =>
        LET sorted == LeafHashes(SortByTs(inp.entries))
        IN  /\ out.ret.value.leaves = [i \in 1..Len(sorted) |-> hex(sorted[i])]
            /\ out.ret.value.batch.root = Prefix0x(hex(merkle_root(sorted).value))

\* C10: build_manifest carries prev_root into the manifest as the same
\* 32-byte value; B2 built with prev_root = B1's manifest root has
\* prev_merkle_root equal to B1's root, and a genesis build has a null
\* prev_merkle_root.
C10_PrevRootCopied ==
    /\ (pc = "done" /\ out.op = "build_manifest" /\ inp.entries # <<>>) =>
          /\ inp.prev_root = None =>
                ~IsRaise(out.ret) /\ out.ret.value.batch.prev_merkle_root = None
          /\ (inp.prev_root # None /\ IsHex64(inp.prev_root)) =>
                /\ ~IsRaise(out.ret)
                /\ out.ret.value.batch.prev_merkle_root # None
                /\ out.ret.value.batch.prev_merkle_root.val = inp.prev_root.val
    /\ (pc = "done" /\ out.op = "chain") =>
          /\ out.b1.batch.prev_merkle_root = None
          /\ out.b2.batch.prev_merkle_root = out.b1.batch.root

C10_Witness ==
    /\ pc = "done"
    /\ out.op = "chain"
    /\ Len(inp.entries) = 2
    /\ out.b2.batch.prev_merkle_root = out.b1.batch.root
    /\ out.b2.batch.root # out.b1.batch.root

(***************************************************************************)
(* Claims about the manifest store (under SpecStore).                      *)
(***************************************************************************)

\* C4: writing a manifest for a batch identifier that already has a
\* persisted manifest fails (AlreadyExists) and leaves the first manifest
\* unchanged, however much time passes between the two calls.
C4_SecondWriteFails ==
    \A w \in Writers :
        (/\ writer[w].pc = "done"
         /\ writer[w].had
         /\ \A other \in Writers \ {w} : writer[other].pc = "idle")
            => /\ writer[w].result = "FileExistsError"
               /\ files[writer[w].path] = writer[w].prior

\* C5: when two writers concurrently create the manifest file of the same
\* batch identifier (same path), at most one of them succeeds, under every
\* interleaving of their existence-check and write steps.
C5_AtMostOneWriterSucceeds ==
    \A w1 \in Writers, w2 \in Writers :
        (/\ w1 # w2
         /\ writer[w1].pc = "done" /\ writer[w2].pc = "done"
         /\ writer[w1].path = writer[w2].path
         /\ ~writer[w1].had /\ ~writer[w2].had)
            => ~(writer[w1].result = "ok" /\ writer[w2].result = "ok")

(***************************************************************************)
(* Claims about the anchor and verify handlers (under Spec).               *)
(***************************************************************************)
IsVerifyResult == resp.op = "verify" /\ resp.status = 200

\* C7 as stated: verified=true only if the ledger's latestRoot, as read
\* during that verify, equals the batch's manifest root; never for a batch
\* whose anchor transaction was submitted but not yet acknowledged by the
\* ledger, nor when no on-chain root is available.
C7_NeverVerifiedWhileUnacknowledged ==
    (IsVerifyResult /\ resp.verified) =>
        /\ resp.observed.chain_configured
        /\ resp.observed.ledger_root = _bytes32(resp.manifest_root).value
        /\ ~(resp.observed.tx_pending /\ ~resp.observed.batch_seen)

\* C7 as amended: verified=true only if an on-chain root is available and
\* the ledger's latestRoot, as read during that verify, equals the batch's
\* manifest root; a batch whose anchor transaction is still unacknowledged
\* is not verified unless the ledger already holds that very root.
C7_VerifiedOnlyAgainstLedgerRoot ==
    IsVerifyResult =>
        /\ resp.verified =>
              /\ resp.observed.chain_configured
              /\ resp.on_chain_root # None
              /\ resp.observed.ledger_root = _bytes32(resp.manifest_root).value
        /\ (/\ resp.observed.tx_pending
            /\ ~resp.observed.batch_seen
            /\ resp.observed.ledger_root # _bytes32(resp.manifest_root).value)
              => ~resp.verified

\* A batch anchored without waiting, verified after the ledger acknowledged
\* its root.
C7_Witness ==
    /\ IsVerifyResult
    /\ resp.verified
    /\ resp.observed.batch_seen
    /\ manifests[resp.batch_id].chain.receipt = None
    /\ resp.observed.ledger_root = _bytes32(resp.manifest_root).value

\* C8: in every verification result, verified is true if and only if
\* proof_valid is true and root_matches_chain is true.
C8_VerifiedIffBothChecks ==
    IsVerifyResult => (resp.verified <=> (resp.proof_valid /\ resp.root_matches_chain))

\* A valid proof whose root the ledger does not hold.
C8_Witness ==
    /\ IsVerifyResult
    /\ resp.proof_valid
    /\ ~resp.root_matches_chain
    /\ ~resp.verified
    /\ resp.observed.chain_configured

\* C9: root_matches_chain is true exactly when the manifest root and the
\* ledger's current root denote the same 32 bytes, for every manifest root
\* text verify accepts (upper or lower case, with or without 0x).
C9_RootComparedAsBytes ==
    (IsVerifyResult /\ resp.observed.chain_configured) =>
        (resp.root_matches_chain <=>
            _bytes32(resp.manifest_root).value = resp.observed.ledger_root)

(***************************************************************************)
(* Claims about the chain of batches the service produces (under Spec).    *)
(***************************************************************************)
\* The batches whose persisted manifest the anchor_batch pipeline wrote.
PipelineBatches ==
    {b \in BatchIds : manifests[b] # NoFile /\ "chain" \in DOMAIN manifests[b]}

\* C11: across the batches the pipeline produced, only the first has a null
\* previous root and a later batch's prev_merkle_root is the root of the
\* batch before it: of two produced batches at most one has a null previous
\* root, and one of them names the other's root as its previous root.
C11_ChainInvariant ==
    \A b \in PipelineBatches, c \in PipelineBatches :
        b # c =>
            /\ ~(manifests[b].batch.prev_merkle_root = None
                 /\ manifests[c].batch.prev_merkle_root = None)
            /\ \/ manifests[b].batch.prev_merkle_root = manifests[c].batch.root
               \/ manifests[c].batch.prev_merkle_root = manifests[b].batch.root

(***************************************************************************)
(* Claims about error handling of the Merkle engine and the assembler.     *)
(***************************************************************************)

\* C12: merkle_root of no leaves fails (ValueError, the EmptyBatch error),
\* and build_manifest of no entries fails with the same error and returns
\* no manifest; a non-empty batch is not rejected as empty.
C12_EmptyBatchRejected ==
    (pc = "done" /\ out.op \in {"merkle_root", "build_manifest"}) =>
        IF inp.entries = <<>>
        THEN out.ret = Raise("ValueError")
        ELSE out.op = "merkle_root" => ~IsRaise(out.ret)

\* build_manifest was called on an empty batch and raised.
C12_Witness ==
    /\ pc = "done"
    /\ out.op = "build_manifest"
    /\ inp.entries = <<>>
    /\ inp.prev_root # None
    /\ IsRaise(out.ret)

\* C13: merkle_proof(index, leaves) fails with IndexError (the
\* IndexOutOfRange error) for every index outside [0, len(leaves)): negative,
\* equal to or beyond the length, any index when leaves is empty; for every
\* index inside the range it returns a proof of (direction, sibling) pairs.
C13_ProofIndexChecked ==
    (pc = "done" /\ out.op = "merkle_proof") =>
        IF 0 <= inp.index /\ inp.index < Len(inp.leaves)
        THEN /\ ~IsRaise(out.ret)
             /\ \A k \in 1..Len(out.ret.value) : out.ret.value[k][1] \in {"left", "right"}
        ELSE out.ret = Raise("IndexError")

\* proof(5, leaves) with three leaves was called and raised.
C13_Witness ==
    /\ pc = "done"
    /\ out.op = "merkle_proof"
    /\ Len(inp.leaves) = 3
    /\ inp.index = 5
    /\ out.ret = Raise("IndexError")

\* The fold of a proof whose directions are all left or right, written from
\* the last entry inwards.
RECURSIVE RefFold(_, _)
RefFold(leaf, proof) ==
    IF proof = <<>>
    THEN leaf
    ELSE LET n == Len(proof)
             inner == RefFold(leaf, SubSeq(proof, 1, n - 1))
         IN  IF proof[n][1] = "right"
             THEN Sha256(Concat(inner, proof[n][2]))
             ELSE Sha256(Concat(proof[n][2], inner))

WellFormedProof(proof) == \A k \in 1..Len(proof) : proof[k][1] \in {"left", "right"}

\* C14: verify_proof raises ValueError (the UnknownDirection error) if and
\* only if some proof entry has a direction outside {left, right}, wherever
\* that entry stands; for a proof of left/right entries it returns a boolean,
\* false whenever the folded hash differs from the expected root.
C14_RaisesOnlyOnUnknownDirection ==
    (pc = "done" /\ out.op = "verify_foreign_proof") =>
        /\ out.ret = Raise("ValueError") <=> ~WellFormedProof(out.proof)
        /\ WellFormedProof(out.proof) =>
              out.ret = Ret(RefFold(out.leaf, out.proof) = out.root)

\* An unknown direction behind an entry whose sibling already rules out a
\* match: verify_proof raised.
C14_Witness ==
    /\ pc = "done"
    /\ out.op = "verify_foreign_proof"
    /\ Len(out.proof) >= 2
    /\ out.proof[1][2] = ForeignSibling
    /\ out.proof[1][1] \in {"left", "right"}
    /\ out.proof[2][1] = "up"
    /\ out.ret = Raise("ValueError")

(***************************************************************************)
(* Claims about the failures of the verification service (under Spec).     *)
(***************************************************************************)
IsVerifyResponse == resp # NoOut /\ resp.op = "verify"

EntryIndexOutOfRange ==
    resp.status = 404 /\ resp.detail = "Entry index out of range for manifest"

ManifestRootMissing ==
    resp.status = 400 /\ resp.detail = "Manifest missing Merkle root"

\* The number of serialized entries of a manifest.
EntryCount(manifest) ==
    IF "entries" \in DOMAIN manifest THEN Len(manifest.entries) ELSE 0

MinTs(entries) ==
    CHOOSE t \in {entries[i].ts : i \in 1..Len(entries)} :
        \A i \in 1..Len(entries) : ~TsLess(entries[i].ts, t)

MaxTs(entries) ==
    CHOOSE t \in {entries[i].ts : i \in 1..Len(entries)} :
        \A i \in 1..Len(entries) : ~TsLess(t, entries[i].ts)

\* C16: for every non-empty entries sequence given to build_manifest, in
\* any order, window_start is the minimum and window_end the maximum
\* timestamp of the entries.
C16_WindowIsMinMax ==
    (pc = "done" /\ out.op = "build_manifest" /\ inp.entries # <<>> /\ ~IsRaise(out.ret)) =>
        /\ out.ret.value.batch.window_start = strftime(MinTs(inp.entries))
        /\ out.ret.value.batch.window_end = strftime(MaxTs(inp.entries))

\* A hash text in the rendered form: 0x, then 64 lower-case hex digits.
IsRenderedHash(text) == text.pfx /\ ~text.upper /\ IsHex64(text)

\* C17: every hash value in a manifest (root, previous root when present,
\* each element of the leaves list) is a lowercase, 0x-prefixed,
\* 64-hex-character string.
C17_HashesRendered0xLower ==
    (pc = "done" /\ out.op = "build_manifest" /\ ~IsRaise(out.ret)) =>
        LET manifest == out.ret.value
        IN  /\ IsRenderedHash(manifest.batch.root)
            /\ manifest.batch.prev_merkle_root # None
                  => IsRenderedHash(manifest.batch.prev_merkle_root)
            /\ \A i \in 1..Len(manifest.leaves) : IsRenderedHash(manifest.leaves[i])

\* C18: two entries with equal base fields and the same key/value pairs in
\* fields, inserted in any order, have identical canonical encodings and
\* identical leaf hashes (and the encoding is the one canonical_leaf gives
\* for the mapping the items denote).
C18_LeafIgnoresInsertionOrder ==
    (pc = "done" /\ out.op = "canonical_leaf") =>
        /\ out.first_leaf = out.second_leaf
        /\ out.first_hash = out.second_hash
        /\ out.first_leaf =
              canonical_leaf([inp.entries[1] EXCEPT !.fields = DictOfItems(out.first)])

\* Three fields inserted in two different orders were encoded.
C18_Witness ==
    /\ pc = "done"
    /\ out.op = "canonical_leaf"
    /\ Len(out.first) = 3
    /\ out.first # out.second
    /\ out.first_hash = out.second_hash

(***************************************************************************)
(* Claims about purity (under SpecPure).                                   *)
(***************************************************************************)
\* What the last call returns when it runs alone on the batch as given.
AloneResult(call) ==
    LET entries == inp[call.batch]
        leaves == LeafHashes(entries)
    IN  CASE call.op = "merkle_root" -> merkle_root(leaves)
          [] call.op = "merkle_proof" -> merkle_proof(call.index, leaves)
          [] call.op = "verify_proof" ->
                verify_proof(At(leaves, call.index),
                             merkle_proof(call.index, leaves).value,
                             merkle_root(leaves).value)
          [] call.op = "build_manifest" -> build_manifest(call.batch, entries, None)

\* C19: merkle_root, merkle_proof, verify_proof and build_manifest leave the
\* entries and leaves of their caller unchanged, and each call, whatever
\* calls on either batch came before it, returns what it returns when run
\* alone on the same arguments.
C19_CallsArePure ==
    /\ \A b \in PureBatches :
          /\ out.heap[b].entries = inp[b]
          /\ out.heap[b].leaves = LeafHashes(inp[b])
    /\ out.last # NoOut => out.last.ret = AloneResult(out.last)

\* A second call: a proof over an odd number of leaves of batch B, where
\* merkle_proof appends to its local list.
C19_Witness ==
    /\ out.calls >= 2
    /\ out.last.op = "merkle_proof"
    /\ out.last.batch = "B"
    /\ Len(inp["B"]) = 3
    /\ ~IsRaise(out.last.ret)

(***************************************************************************)
(* Claims about entry validation (under SpecBatch).                        *)
(***************************************************************************)
\* A payload with a required base field missing or of the wrong type: the
\* three text fields must be strings, ts a string or a number.
InvalidBasePayload(payload) ==
    \/ ~({"ts", "source_id", "level", "msg"} \subseteq DOMAIN payload)
    \/ \E k \in {"source_id", "level", "msg"} : ~IsJStr(payload[k])
    \/ ~(IsJStr(payload["ts"]) \/ IsJNum(payload["ts"]))

\* C20: an entry with a required base field missing or of the wrong type is
\* rejected before any hash is computed: parse_obj raises, no LogEntry is
\* returned and no leaf hash is produced for it.
C20_InvalidEntryRejected ==
    (pc = "done" /\ out.op = "parse_obj" /\ InvalidBasePayload(out.payload)) =>
        (IsRaise(out.ret) /\ out.leaf = None)

(***************************************************************************)
(* Claims about the order of storage and ledger steps (under Spec).        *)
(***************************************************************************)

\* C21: the manifest write of a batch precedes its ledger submission: a
\* batch whose anchor transaction has been submitted (pending or already
\* applied by the ledger) has its manifest on file.
C21_ManifestWrittenBeforeSubmission ==
    /\ \A tx \in pending : manifests[tx.batch_id] # NoFile
    /\ \A b \in seenBatches : manifests[b] # NoFile

(***************************************************************************)
(* Claims about the shape of the Merkle construction (under SpecMerkle).   *)
(***************************************************************************)

\* C22: there is no domain separation between leaves and internal nodes:
\* for every leaf sequence of length >= 2, merkle_root(leaves) equals
\* merkle_root of its level-1 node hashes used as leaves, and merkle_root of
\* a single leaf is that leaf, unhashed.
C22_NoDomainSeparation ==
    /\ (pc = "done" /\ out.op = "root_of_nodes") =>
          /\ out.nodes = [k \in 1..LevelCount(Len(inp.leaves), 1) |->
                             RefNode(inp.leaves, 1, k - 1)]
          /\ ~IsRaise(out.ret)
          /\ out.ret = out.leaves_root
    /\ (pc = "done" /\ out.op = "merkle_root" /\ Len(inp.leaves) = 1) =>
          out.ret = Ret(inp.leaves[1])

\* Three leaves, the third of which is itself the hash of an internal node.
C22_Witness ==
    /\ pc = "done"
    /\ out.op = "root_of_nodes"
    /\ Len(inp.leaves) = 3
    /\ inp.leaves[3] = Sha256(Concat(Raw(1), Raw(2)))
    /\ out.ret = out.leaves_root

(***************************************************************************)
(* Claims about what verification reads (under Spec).                      *)
(***************************************************************************)

\* The entries a manifest on file serializes, parsed back.
EntriesOnFile(manifest) ==
    [i \in 1..Len(manifest.entries) |-> parse_obj(manifest.entries[i]).value]

\* The manifest's leaves array is the rendering of its entries' leaf hashes.
LeavesArrayAgrees(manifest) ==
    manifest.leaves = [i \in 1..Len(manifest.entries) |->
                          hex(leaf_hash(EntriesOnFile(manifest)[i]))]

\* C23: verification does not trust the manifest's stored leaf list: for
\* every valid entry_index, proof_valid is true exactly when the Merkle root
\* recomputed from the leaf hashes of the manifest's entries, in recorded
\* order, equals the manifest root, whatever the manifest's leaves array
\* holds; the leaf reported is the hash of the entry.
C23_ProofValidFromEntriesAndRoot ==
    (IsVerifyResponse /\ resp.status = 200) =>
        LET manifest == manifests[resp.request.batch_id]
            entries == EntriesOnFile(manifest)
            recomputed == RefRoot(LeafHashes(entries))
        IN  /\ resp.request.entry_index < Len(entries)
            /\ resp.proof_valid = (recomputed = _bytes32(manifest.batch.root).value)
            /\ resp.leaf = RootText(leaf_hash(entries[resp.request.entry_index + 1]))

\* A manifest whose leaves array was replaced verified an entry with
\* proof_valid true.
C23_Witness ==
    /\ IsVerifyResponse
    /\ resp.status = 200
    /\ ~LeavesArrayAgrees(manifests[resp.request.batch_id])
    /\ resp.proof_valid

(***************************************************************************)
(* Claims about the anchor-then-verify flow (under Spec).                  *)
(***************************************************************************)

\* anchor_batch has answered 200 to a request that awaited the receipt; no
\* other request runs until the response is delivered.
AnchorReturnedWithReceipt ==
    /\ resp # NoOut
    /\ resp.op = "anchor_batch"
    /\ resp.status = 200
    /\ resp.receipt # None

\* C24: the happy path: once anchor_batch for batch b has returned
\* successfully with the receipt awaited, and before any other batch is
\* anchored, verify(b, i) returns verified = true for every entry index i in
\* [0, entry_count).
C24_HappyPathVerifies ==
    AnchorReturnedWithReceipt =>
        \A i \in 0..(resp.entry_count - 1) :
            LET answer == verify(resp.batch_id, i, TRUE)
            IN  answer.status = 200 /\ answer.verified

\* The index of the node merkle_root pairs with node a of a level.
PairedWith(a) == IF a % 2 = 1 THEN a - 1 ELSE a + 1

\* The proof entry for ancestor a at level h of a tree over the leaves.
RefProofEntry(leaves, h, a) ==
    IF PairedWith(a) < LevelCount(Len(leaves), h)
    THEN <<IF a % 2 = 1 THEN "left" ELSE "right", RefNode(leaves, h, PairedWith(a))>>
    ELSE <<"right", RefNode(leaves, h, a)>>

\* C25: merkle_proof(index, leaves) returns exactly one entry per tree level
\* that has more than one node (none for a single leaf, two for four
\* leaves); the k-th entry is the hash of the node paired with the target's
\* ancestor at that level under merkle_root's pairing rule, with direction
\* left when the ancestor's index is odd and right when it is even; for the
\* unpaired last node of an odd level the entry is (right, the ancestor's
\* own hash).
C25_ProofFollowsTree ==
    (pc = "done" /\ out.op = "merkle_proof"
        /\ 0 <= inp.index /\ inp.index < Len(inp.leaves)) =>
        LET n == Len(inp.leaves)
            proof == out.ret.value
        IN  /\ ~IsRaise(out.ret)
            /\ Len(proof) = Cardinality({h \in 0..n : LevelCount(n, h) > 1})
            /\ n = 1 => proof = <<>>
            /\ n = 4 => Len(proof) = 2
            /\ \A k \in 1..Len(proof) :
                  proof[k] = RefProofEntry(inp.leaves, k - 1, inp.index \div Pow2(k - 1))

\* The proof of the last of five leaves: unpaired at the two lower levels,
\* the right-hand node at the top.
C25_Witness ==
    /\ pc = "done"
    /\ out.op = "merkle_proof"
    /\ Len(inp.leaves) = 5
    /\ inp.index = 4
    /\ Len(out.ret.value) = 3
    /\ out.ret.value[1] = <<"right", inp.leaves[5]>>
    /\ out.ret.value[3][1] = "left"

\* An anchor_batch request has just ended with its ledger submission failed:
\* the provider could not be reached, the contract rejected the call, the
\* receipt never arrived, or the transaction was mined and reverted.
LedgerSubmissionFailed ==
    /\ resp = NoOut
    /\ resp' # NoOut
    /\ resp'.op = "anchor_batch"
    /\ \/ /\ resp'.status # 200
          /\ resp'.detail \in {"Unable to connect to RPC", "Contract rejected anchor",
                               "TimeExhausted"}
       \/ /\ resp'.status = 200
          /\ resp'.receipt = [status |-> 0]

\* C26: when the ledger submission in anchor_batch fails, the failure is
\* surfaced to the caller after a single submission attempt, with no
\* internal retry, and the manifest store is left unchanged: no manifest
\* file for the batch is created or modified.
C26_FailedSubmissionLeavesStore ==
    [][LedgerSubmissionFailed =>
          /\ resp'.status # 200
          /\ Cardinality(pending' \ pending) <= 1
          /\ manifests' = manifests]_vars

(***************************************************************************)
(* Claims about parsing and re-parsing entries (under SpecBatch).          *)
(***************************************************************************)

TopLevelBaseKeys == {"ts", "source_id", "level", "msg", "fields"}

\* The payload's own fields object, empty when it has none.
OwnFields(payload) ==
    IF "fields" \in DOMAIN payload /\ IsJObj(payload["fields"])
    THEN payload["fields"].obj
    ELSE EmptyDict

\* C27: LogEntry.parse_obj merges dynamic fields: every top-level key of the
\* raw payload other than ts, source_id, level, msg and fields is placed in
\* the entry's fields together with the contents of the payload's own fields
\* object, the top-level value winning when both define a key, and no base
\* key appears in fields through the top-level merge.
C27_DynamicFieldsMerged ==
    (pc = "done" /\ out.op = "parse_obj" /\ ~IsRaise(out.ret)) =>
        LET payload == out.payload
            fields == out.ret.value.fields
            top == DOMAIN payload \ TopLevelBaseKeys
            own == OwnFields(payload)
        IN  /\ DOMAIN fields = top \cup DOMAIN own
            /\ \A k \in top : fields[k] = payload[k]
            /\ \A k \in DOMAIN own \ top : fields[k] = own[k]
            /\ \A k \in TopLevelBaseKeys \cap DOMAIN fields :
                  k \in DOMAIN own /\ fields[k] = own[k]

\* A payload with user at the top level and another user in its fields
\* object was parsed: the top-level value is the one kept.
C27_Witness ==
    /\ pc = "done"
    /\ out.op = "parse_obj"
    /\ ~IsRaise(out.ret)
    /\ "user" \in DOMAIN out.payload
    /\ "user" \in DOMAIN OwnFields(out.payload)
    /\ out.payload["user"] # OwnFields(out.payload)["user"]
    /\ "details" \in DOMAIN out.ret.value.fields
    /\ out.ret.value.fields["user"] = JStr("alice")

\* C28: serializing an entry into the manifest and reconstructing it
\* preserves its leaf hash: for every LogEntry e produced by parse_obj,
\* leaf_hash(LogEntry.parse_obj(json.loads(e.json()))) = leaf_hash(e).
C28_RoundTripKeepsLeaf ==
    (pc = "done" /\ out.op = "round_trip") =>
        /\ ~IsRaise(out.again)
        /\ out.leaf_again = out.leaf

\* The same, for entries of the year 1000 and later.
RoundTripKeepsLeafFromYear1000 ==
    (pc = "done" /\ out.op = "round_trip" /\ out.entry.ts.sec >= 0) =>
        /\ ~IsRaise(out.again)
        /\ out.leaf_again = out.leaf

\* The batch of the verify request was anchored on the ledger, and the
\* ledger's latestRoot, read while the request ran, is another root than
\* the one in the batch's manifest.
Superseded ==
    /\ resp.observed.batch_seen
    /\ resp.observed.chain_configured
    /\ resp.observed.ledger_root # _bytes32(resp.manifest_root).value

\* The manifest on file for the batch was written by anchor_batch.
ServiceManifest(batch_id) ==
    manifests[batch_id] # NoFile /\ "chain" \in DOMAIN manifests[batch_id]

\* C29: verification succeeds only for the most recently anchored root:
\* verify returns verified = true for a batch only while its manifest root
\* equals the ledger's latestRoot; once a later batch with a different root
\* is anchored, verify of an earlier batch returns verified = false with
\* root_matches_chain = false, even though proof_valid = true.
C29_OnlyLatestRootVerifies ==
    IsVerifyResult =>
        /\ resp.verified =>
              /\ resp.observed.chain_configured
              /\ resp.observed.ledger_root = _bytes32(resp.manifest_root).value
        /\ Superseded => (~resp.verified /\ ~resp.root_matches_chain)
        /\ ServiceManifest(resp.batch_id) =>
              /\ resp.proof_valid
              /\ resp.verified <=>
                    /\ resp.observed.chain_configured
                    /\ resp.observed.ledger_root = _bytes32(resp.manifest_root).value

\* b1 was anchored, then b2 with another root; verify of b1 finds its proof
\* valid and the batch not verified.
C29_Witness ==
    /\ IsVerifyResult
    /\ resp.batch_id = "b1"
    /\ Superseded
    /\ ServiceManifest("b1")
    /\ ServiceManifest("b2")
    /\ "b2" \in seenBatches
    /\ resp.observed.ledger_root = _bytes32(manifests["b2"].batch.root).value
    /\ resp.proof_valid
    /\ ~resp.root_matches_chain
    /\ ~resp.verified

\* C30: the root does not bind the number of leaves: for every leaf sequence
\* of odd length n >= 3, merkle_root(leaves) = merkle_root(leaves +
\* [leaves[n-1]]), so two leaf lists of different counts carry the same
\* root, and the proof generated for index n-1 of the shorter list also
\* verifies the same leaf at index n of the longer list.
C30_RootDoesNotBindLeafCount ==
    (pc = "done" /\ out.op = "root_of_extended") =>
        LET n == Len(inp.leaves)
        IN  /\ Len(out.longer) = n + 1
            /\ out.longer # inp.leaves
            /\ ~IsRaise(out.ret)
            /\ out.ret = out.root
            /\ out.ret.value = RefRoot(out.longer)
            /\ out.longer[n + 1] = inp.leaves[n]
            /\ out.accepted = Ret(TRUE)

\* Five leaves and the six-leaf list that repeats the fifth.
C30_Witness ==
    /\ pc = "done"
    /\ out.op = "root_of_extended"
    /\ Len(inp.leaves) = 5
    /\ Len(out.longer) = 6
    /\ out.ret = out.root
    /\ out.accepted = Ret(TRUE)

====
